---- MODULE Spec2Model ----
(***************************************************************************)
(* Blob storage gateway (app.py): three storage adapters (LocalFS,         *)
(* DBTable, S3), the blob_meta index and the store / retrieve handlers,    *)
(* run by concurrent requests.                                              *)
(*                                                                         *)
(* Text (ids, locators, base64 payloads) is a sequence of one-character    *)
(* strings; bytes are a sequence of numbers 0..255.                        *)
(***************************************************************************)
EXTENDS Integers, Sequences, FiniteSets, TLC

(***************************************************************************)
(* Bounds of the model.                                                    *)
(***************************************************************************)
\* number of events (requests received, payloads lost) in one behaviour
MaxReq == 3

\* length of the longest key the sanitizer is given, a few chosen ones aside
MaxKeyLen == 3

(***************************************************************************)
(* Sequence helpers.                                                       *)
(***************************************************************************)
RECURSIVE Join(_, _)
\* sep.join(parts) for a sequence of texts
Join(parts, sep) ==
    IF Len(parts) = 0 THEN <<>>
    ELSE IF Len(parts) = 1 THEN parts[1]
    ELSE parts[1] \o sep \o Join(Tail(parts), sep)

RECURSIVE Split(_, _)
\* str.split(sep) for a one-character separator: always at least one piece
Split(s, sep) ==
    IF \A i \in 1..Len(s) : s[i] # sep THEN <<s>>
    ELSE LET k == CHOOSE i \in 1..Len(s) :
                      s[i] = sep /\ \A j \in 1..(i-1) : s[j] # sep
         IN  <<SubSeq(s, 1, k-1)>> \o Split(SubSeq(s, k+1, Len(s)), sep)

RECURSIVE StripChars(_, _)
\* str.strip(chars): drop leading and trailing characters of the set
StripChars(s, chars) ==
    IF Len(s) = 0 THEN s
    ELSE IF s[1] \in chars THEN StripChars(Tail(s), chars)
    ELSE IF s[Len(s)] \in chars THEN StripChars(SubSeq(s, 1, Len(s)-1), chars)
    ELSE s

Whitespace == {" ", "\t", "\n", "\r", "\f"}

(***************************************************************************)
(* base64                                                                  *)
(***************************************************************************)
B64Alphabet ==
    <<"A","B","C","D","E","F","G","H","I","J","K","L","M","N","O","P",
      "Q","R","S","T","U","V","W","X","Y","Z","a","b","c","d","e","f",
      "g","h","i","j","k","l","m","n","o","p","q","r","s","t","u","v",
      "w","x","y","z","0","1","2","3","4","5","6","7","8","9","+","/">>

B64Index(c) == (CHOOSE i \in 1..64 : B64Alphabet[i] = c) - 1

B64Chars == {B64Alphabet[i] : i \in 1..64}

\* number of "=" characters at the end of s
PadCount(s) ==
    IF Len(s) >= 1 /\ s[Len(s)] = "="
    THEN IF Len(s) >= 2 /\ s[Len(s)-1] = "="
         THEN IF Len(s) >= 3 /\ s[Len(s)-2] = "=" THEN 3 ELSE 2
         ELSE 1
    ELSE 0

\* b64decode(s, validate=True) does not raise binascii.Error
B64Valid(s) ==
    /\ Len(s) % 4 = 0
    /\ PadCount(s) <= 2
    /\ \A i \in 1..(Len(s) - PadCount(s)) : s[i] \in B64Chars

Sextet(c) == IF c = "=" THEN 0 ELSE B64Index(c)

RECURSIVE B64Groups(_)
\* three bytes for every group of four characters
B64Groups(s) ==
    IF Len(s) = 0 THEN <<>>
    ELSE LET n == Sextet(s[1]) * 262144 + Sextet(s[2]) * 4096
                  + Sextet(s[3]) * 64 + Sextet(s[4])
         IN  <<n \div 65536, (n \div 256) % 256, n % 256>>
             \o B64Groups(SubSeq(s, 5, Len(s)))

\* b64decode(s, validate=True) of a valid text
b64decode(s) ==
    LET all == B64Groups(s)
    IN  SubSeq(all, 1, Len(all) - PadCount(s))

RECURSIVE b64encode(_)
\* b64encode(raw).decode()
b64encode(raw) ==
    IF Len(raw) = 0 THEN <<>>
    ELSE IF Len(raw) = 1 THEN
        LET n == raw[1] * 65536
        IN  <<B64Alphabet[(n \div 262144) + 1],
              B64Alphabet[((n \div 4096) % 64) + 1], "=", "=">>
    ELSE IF Len(raw) = 2 THEN
        LET n == raw[1] * 65536 + raw[2] * 256
        IN  <<B64Alphabet[(n \div 262144) + 1],
              B64Alphabet[((n \div 4096) % 64) + 1],
              B64Alphabet[((n \div 64) % 64) + 1], "=">>
    ELSE
        LET n == raw[1] * 65536 + raw[2] * 256 + raw[3]
        IN  <<B64Alphabet[(n \div 262144) + 1],
              B64Alphabet[((n \div 4096) % 64) + 1],
              B64Alphabet[((n \div 64) % 64) + 1],
              B64Alphabet[(n % 64) + 1]>>
            \o b64encode(SubSeq(raw, 4, Len(raw)))

(***************************************************************************)
(* Key sanitizer                                                           *)
(***************************************************************************)
\* the characters of the pattern ^[A-Za-z0-9._-]+$
SAFE_SEG == (B64Chars \ {"+", "/"}) \cup {".", "_", "-"}

\* hashlib.sha256(seg.encode()).hexdigest()[:16], tabulated for the
\* segments of the keys of this model that are not made of safe characters
sha256hex16(seg) ==
    CASE seg = <<"x"," ","y">> ->
           <<"8","8","7","f","c","e","a","6","a","8","0","3","3","3","c","6">>
      [] seg = <<"."," ",".">> ->
           <<"9","8","6","7","c","8","6","2","6","7","6","f","b","3","d","e">>
      [] seg = <<"."," ","a">> ->
           <<"e","5","6","2","b","4","2","6","8","0","4","5","0","1","4","0">>
      [] seg = <<"a"," ",".">> ->
           <<"3","0","4","a","7","1","d","3","1","4","8","c","5","e","d","7">>
      [] seg = <<"a"," ","a">> ->
           <<"3","d","5","f","d","6","b","1","c","d","e","4","8","d","e","f">>
      [] seg = <<"."," "," ",".">> ->
           <<"0","7","4","c","3","1","d","0","3","f","b","f","e","3","4","a">>
      [] seg = <<"."," "," ","a">> ->
           <<"f","d","d","5","8","c","f","6","7","3","1","d","e","8","a","e">>
      [] seg = <<"."," ",".",".">> ->
           <<"a","8","b","2","7","6","4","8","5","c","e","0","e","7","6","1">>
      [] seg = <<"."," ",".","a">> ->
           <<"d","e","a","e","8","9","a","3","4","e","5","1","9","6","9","c">>
      [] seg = <<"."," ","a",".">> ->
           <<"6","9","8","0","f","4","b","d","0","c","3","6","8","f","b","c">>
      [] seg = <<"."," ","a","a">> ->
           <<"c","a","4","d","6","0","e","a","9","2","4","d","6","b","e","f">>
      [] seg = <<".","."," ",".">> ->
           <<"b","2","f","a","f","4","8","f","4","5","7","e","b","d","6","b">>
      [] seg = <<".","."," ","a">> ->
           <<"1","f","d","2","5","7","7","8","b","1","a","a","9","9","2","f">>
      [] seg = <<".","a"," ",".">> ->
           <<"d","4","d","e","2","8","0","9","4","0","d","d","1","9","5","6">>
      [] seg = <<".","a"," ","a">> ->
           <<"7","6","9","2","3","d","1","0","1","6","c","8","5","0","9","c">>
      [] seg = <<"a"," "," ",".">> ->
           <<"b","5","f","3","5","b","f","7","c","5","8","6","d","1","6","5">>
      [] seg = <<"a"," "," ","a">> ->
           <<"6","b","0","6","a","5","e","a","3","0","6","1","e","9","7","d">>
      [] seg = <<"a"," ",".",".">> ->
           <<"3","c","9","a","e","0","b","e","d","7","4","0","2","c","b","3">>
      [] seg = <<"a"," ",".","a">> ->
           <<"d","9","9","d","3","d","8","9","9","e","9","d","a","9","e","7">>
      [] seg = <<"a"," ","a",".">> ->
           <<"7","6","2","f","b","2","4","d","c","c","0","c","b","d","a","d">>
      [] seg = <<"a"," ","a","a">> ->
           <<"d","c","7","d","8","1","0","b","e","3","4","6","8","1","3","7">>
      [] seg = <<"a","."," ",".">> ->
           <<"9","5","3","2","f","5","6","0","e","4","0","3","5","d","5","0">>
      [] seg = <<"a","."," ","a">> ->
           <<"5","6","a","2","4","f","6","8","1","9","1","7","c","2","0","9">>
      [] seg = <<"a","a"," ",".">> ->
           <<"6","a","e","9","d","7","1","a","3","7","7","3","3","5","a","c">>
      [] seg = <<"a","a"," ","a">> ->
           <<"6","b","f","1","f","2","0","d","a","b","a","b","c","b","8","3">>
      [] OTHER -> <<"0","0","0","0","0","0","0","0","0","0","0","0","0","0","0","0">>

RECURSIVE SafePartsKeepDots(_)
\* a loop that drops the empty segments only, and keeps "." and ".."
SafePartsKeepDots(segs) ==
    IF Len(segs) = 0 THEN <<>>
    ELSE LET seg == StripChars(segs[1], Whitespace)
         IN  IF Len(seg) = 0
             THEN SafePartsKeepDots(Tail(segs))
             ELSE <<IF \A i \in 1..Len(seg) : seg[i] \in SAFE_SEG
                    THEN seg ELSE sha256hex16(seg)>>
                  \o SafePartsKeepDots(Tail(segs))

RECURSIVE SafeParts(_)
\* the loop of safe_relpath over the pieces of the key
SafeParts(segs) ==
    IF Len(segs) = 0 THEN <<>>
    ELSE LET seg == StripChars(segs[1], Whitespace)
         IN  IF Len(seg) = 0 \/ seg = <<".">> \/ seg = <<".", ".">>
             THEN SafeParts(Tail(segs))
             ELSE <<IF \A i \in 1..Len(seg) : seg[i] \in SAFE_SEG
                    THEN seg ELSE sha256hex16(seg)>>
                  \o SafeParts(Tail(segs))

\* safe_relpath(key): the segments of the relative path
safe_relpath(key) ==
    LET parts == SafeParts(Split(StripChars(key, {"/"}), "/"))
    IN  IF Len(parts) = 0 THEN <<<<"b","l","o","b">>>> ELSE parts

\* a locator that keeps the separator of a Windows path
PathStrBackslash(rel) == Join(rel, <<"\\">>)

\* str(rel).replace("\\", "/") and "/".join(rel.parts)
PathStr(rel) == Join(rel, <<"/">>)

\* path.with_suffix(path.suffix + ".part"): the temporary sibling
PartPath(rel) ==
    SubSeq(rel, 1, Len(rel)-1) \o <<rel[Len(rel)] \o <<".","p","a","r","t">>>>

\* the proper ancestors of a relative path, below the storage root
Parents(rel) == {SubSeq(rel, 1, k) : k \in 1..(Len(rel)-1)}

(***************************************************************************)
(* Inputs of the requests.                                                 *)
(***************************************************************************)
Backends == {"local", "db", "s3"}

\* "a" and "a/b": the directory of the second is the file of the first
Ids == { <<"a">>, <<"a", "/", "b">> }

\* "QQ==" (b"A"), "QkM=" (b"BC") and "Q!==" (not base64)
Payloads == { <<"Q","Q","=","=">>, <<"Q","k","M","=">>, <<"Q","!","=","=">> }

\* the two callers whose requests run at the same time
Clients == {1, 2}

(***************************************************************************)
(* State.                                                                  *)
(***************************************************************************)
VARIABLES
    req,        \* the request each slot is serving, and where it stands
    started,    \* number of events so far (requests received, payloads
                \* lost); the wall clock reads this number of half seconds
    blob_meta,  \* rows of the table blob_meta
    blob_data,  \* rows of the table blob_data
    files,      \* LOCAL_STORAGE_DIR: relative path -> inode of a regular file
    inodes,     \* LOCAL_STORAGE_DIR: inode -> bytes
    dirs,       \* LOCAL_STORAGE_DIR: relative paths that are directories
    s3objects,  \* the bucket: object key -> bytes
    accepted,   \* history: (backend, id, raw) of every store answered 200
    san_key,    \* safe_relpath on its own: the key it is called with
    san_rel,    \* safe_relpath(key), <<>> before the call
    san_again   \* safe_relpath(str(rel)), <<>> before the call

vars == <<req, started, blob_meta, blob_data, files, inodes, dirs, s3objects,
          accepted, san_key, san_rel, san_again>>

\* the state of the gateway and of its backends
gateway == <<req, started, blob_meta, blob_data, files, inodes, dirs,
             s3objects, accepted>>

\* the state of a call of safe_relpath outside the gateway
sanitizer == <<san_key, san_rel, san_again>>

storage == <<blob_data, files, inodes, dirs, s3objects>>

\* a request that has not read a row of blob_meta
NoMeta == [id |-> <<>>, backend |-> "none", locator |-> <<>>, size |-> 0,
           created_at |-> 0]

\* a request that has not been answered with a BlobOut
NoBlobOut == [id |-> <<>>, data |-> <<>>, size |-> 0, created_at |-> 0]

Idle ==
    [op |-> "none", backend |-> "none", id |-> <<>>, data |-> <<>>,
     pc |-> "idle", raw |-> <<>>, locator |-> <<>>, fd |-> 0, row |-> FALSE,
     meta |-> NoMeta, status |-> 0, exc |-> "none", resp |-> NoBlobOut,
     retry |-> FALSE]

Init ==
    /\ req = [c \in Clients |-> Idle]
    /\ started = 0
    /\ blob_meta = {}
    /\ blob_data = {}
    /\ files = <<>>
    /\ inodes = <<>>
    /\ dirs = {}
    /\ s3objects = <<>>
    /\ accepted = {}
    /\ san_key = <<>>
    /\ san_rel = <<>>
    /\ san_again = <<>>

(***************************************************************************)
(* Helpers on the state.                                                   *)
(***************************************************************************)
\* datetime.now(timezone.utc), in half seconds
now == started

\* datetime.strftime("%Y-%m-%dT%H:%M:%SZ"): whole seconds
strftime(t) == t \div 2

\* raise HTTPException(status_code=status), or an exception nobody catches
\* (status 500): the request ends and keeps only what the caller sees
Raise(c, status, exc) ==
    req' = [req EXCEPT ![c] =
              [Idle EXCEPT !.op = req[c].op, !.backend = req[c].backend,
                           !.id = req[c].id, !.data = req[c].data,
                           !.retry = req[c].retry, !.pc = "done",
                           !.status = status, !.exc = exc]]

\* return BlobOut(...): the request ends with a 200
Answer(c, out) ==
    req' = [req EXCEPT ![c] =
              [Idle EXCEPT !.op = req[c].op, !.backend = req[c].backend,
                           !.id = req[c].id, !.data = req[c].data,
                           !.retry = req[c].retry, !.pc = "done",
                           !.status = 200, !.resp = out]]

\* f without the key k
Drop(f, k) == [x \in (DOMAIN f) \ {k} |-> f[x]]

\* f with k mapped to v
Put(f, k, v) == [x \in (DOMAIN f) \cup {k} |-> IF x = k THEN v ELSE f[x]]

\* inode numbers some request still has open for writing
OpenFds(r) == {r[c].fd : c \in {x \in Clients : r[x].pc = "local_write"}}

\* the inodes that a path or an open file still refers to
Live(fs, ino, r) ==
    [n \in {x \in DOMAIN ino : (\E p \in DOMAIN fs : fs[p] = x) \/ x \in OpenFds(r)}
       |-> ino[n]]

FreshInode == CHOOSE n \in 1..(Cardinality(DOMAIN inodes) + 1) : n \notin DOMAIN inodes

(***************************************************************************)
(* store_local / store_db / store_s3, up to the call of the adapter.  The  *)
(* three handlers are the same code with another backend name and adapter. *)
(***************************************************************************)
\* the slot a new request takes: the first one that serves no request
FreeSlot(c) ==
    /\ req[c].pc \in {"idle", "done"}
    /\ \A x \in Clients : x < c => req[x].pc \notin {"idle", "done"}

\* a query that forgets the backend
MetaQueryAnyBackend(b, i) == {m \in blob_meta : m.id = i}

\* the row of blob_meta that filter_by(backend=b, id=i) selects
MetaQuery(b, i) == {m \in blob_meta : m.backend = b /\ m.id = i}

\* the first statement of the adapter's put, by backend
PutEntry(b) ==
    CASE b = "local" -> "local_open"
      [] b = "db"    -> "db_read"
      [] b = "s3"    -> "s3_put"

\* history: a store of (b, i) has been answered 502 and is still on display
Answered502(b, i) ==
    \E x \in Clients : /\ req[x].pc = "done"
                       /\ req[x].op = "store"
                       /\ req[x].backend = b
                       /\ req[x].id = i
                       /\ req[x].status = 502

\* a store that looks for the row before it decodes the payload
StoreOutcomeCheckFirst(b, i, d) ==
    IF MetaQuery(b, i) # {} THEN 409
    ELSE IF ~B64Valid(d) THEN 400
    ELSE 0

\* a store that does not look for the row
StoreOutcomeNoCheck(b, i, d) ==
    IF ~B64Valid(d) THEN 400 ELSE 0

\* the status store_* raises before it calls the adapter, 0 when it goes on:
\*   raw = b64decode(body.data, validate=True), or 400
\*   exists = db.query(BlobMeta).filter_by(...).one_or_none(), or 409
StoreOutcome(b, i, d) ==
    IF ~B64Valid(d) THEN 400
    ELSE IF MetaQuery(b, i) # {} THEN 409
    ELSE 0

\* POST /v1/<backend>/blobs with body {id, data}, up to the adapter's put
StoreBegin(c, b, i, d) ==
    /\ started < MaxReq
    /\ FreeSlot(c)
    /\ LET r == [Idle EXCEPT !.op = "store", !.backend = b, !.id = i,
                             !.data = d, !.retry = Answered502(b, i)]
           status == StoreOutcome(b, i, d)
       IN  req' = [req EXCEPT ![c] =
                IF status = 400
                THEN [r EXCEPT !.pc = "done", !.status = 400,
                               !.exc = "binascii.Error"]
                ELSE IF status = 409
                THEN [r EXCEPT !.pc = "done", !.status = 409]
                ELSE [r EXCEPT !.pc = PutEntry(b), !.raw = b64decode(d)]]
    /\ started' = started + 1
    /\ UNCHANGED sanitizer
    /\ UNCHANGED <<blob_meta, storage, accepted>>

(***************************************************************************)
(* LocalFS.put, one system call (or the calls of one statement) at a time. *)
(* An exception leaves store_* through "except Exception" as a 502.        *)
(***************************************************************************)
\* the directories path.parent.mkdir(parents=True, exist_ok=True) creates:
\* every ancestor above the first one that is a regular file
MkdirParents(rel) ==
    {p \in Parents(rel) :
        \A q \in Parents(rel) : Len(q) <= Len(p) => q \notin DOMAIN files}

\* rel = safe_relpath(key); path.parent.mkdir(...); open(tmp, "wb")
LocalOpen(c) ==
    /\ req[c].pc = "local_open"
    /\ LET rel == safe_relpath(req[c].id)
           tmp == PartPath(rel)
           newdirs == dirs \cup MkdirParents(rel)
       IN  /\ dirs' = newdirs
           /\ IF \E p \in Parents(rel) : p \in DOMAIN files
              THEN /\ Raise(c, 502, "FileExistsError")
                   /\ UNCHANGED <<files, inodes>>
              ELSE IF tmp \in newdirs
              THEN /\ Raise(c, 502, "IsADirectoryError")
                   /\ UNCHANGED <<files, inodes>>
              ELSE IF tmp \in DOMAIN files
              THEN /\ req' = [req EXCEPT ![c].fd = files[tmp],
                                         ![c].pc = "local_write"]
                   /\ inodes' = [inodes EXCEPT ![files[tmp]] = <<>>]
                   /\ UNCHANGED files
              ELSE /\ req' = [req EXCEPT ![c].fd = FreshInode,
                                         ![c].pc = "local_write"]
                   /\ inodes' = Put(inodes, FreshInode, <<>>)
                   /\ files' = Put(files, tmp, FreshInode)
    /\ UNCHANGED sanitizer
    /\ UNCHANGED <<started, blob_meta, blob_data, s3objects, accepted>>

\* a put that closes the temporary file without writing to it
LocalWriteNothing(c) ==
    /\ req[c].pc = "local_write"
    /\ req' = [req EXCEPT ![c].pc = "local_replace", ![c].fd = 0]
    /\ inodes' = Live(files, inodes, req')
    /\ UNCHANGED sanitizer
    /\ UNCHANGED <<started, blob_meta, blob_data, files, dirs, s3objects, accepted>>

\* f.write(data) and the close at the end of the with block
LocalWrite(c) ==
    /\ req[c].pc = "local_write"
    /\ req' = [req EXCEPT ![c].pc = "local_replace", ![c].fd = 0]
    /\ inodes' = Live(files, [inodes EXCEPT ![req[c].fd] = req[c].raw], req')
    /\ UNCHANGED sanitizer
    /\ UNCHANGED <<started, blob_meta, blob_data, files, dirs, s3objects, accepted>>

\* os.replace(tmp, path); return str(rel).replace("\\", "/")
LocalReplace(c) ==
    /\ req[c].pc = "local_replace"
    /\ LET rel == safe_relpath(req[c].id)
           tmp == PartPath(rel)
       IN  IF tmp \notin DOMAIN files
           THEN /\ Raise(c, 502, "FileNotFoundError")
                /\ UNCHANGED <<files, inodes>>
           ELSE IF rel \in dirs
           THEN /\ Raise(c, 502, "IsADirectoryError")
                /\ UNCHANGED <<files, inodes>>
           ELSE /\ req' = [req EXCEPT ![c].locator = PathStr(rel),
                                      ![c].pc = "insert"]
                /\ files' = Put(Drop(files, tmp), rel, files[tmp])
                /\ inodes' = Live(files', inodes, req')
    /\ UNCHANGED sanitizer
    /\ UNCHANGED <<started, blob_meta, blob_data, dirs, s3objects,
                   accepted>>

(***************************************************************************)
(* DBTable.put: the read, then the transaction that commits.               *)
(***************************************************************************)
\* row = db.get(BlobData, key)
DbRead(c) ==
    /\ req[c].pc = "db_read"
    /\ req' = [req EXCEPT ![c].row = \E r \in blob_data : r.id = req[c].id,
                          ![c].pc = "db_commit"]
    /\ UNCHANGED sanitizer
    /\ UNCHANGED <<started, blob_meta, storage, accepted>>

\* a put that commits the delete before it inserts the new row
DbCommitTwoTransactions(c) ==
    /\ req[c].pc = "db_commit"
    /\ LET key == req[c].id
           new == [id |-> key, data |-> req[c].raw]
       IN  IF req[c].row
           THEN /\ blob_data' = {r \in blob_data : r.id # key}
                /\ req' = [req EXCEPT ![c].row = FALSE]
           ELSE IF \E r \in blob_data : r.id = key
           THEN /\ Raise(c, 502, "IntegrityError")
                /\ UNCHANGED blob_data
           ELSE /\ blob_data' = blob_data \cup {new}
                /\ req' = [req EXCEPT ![c].locator = key, ![c].pc = "insert"]
    /\ UNCHANGED sanitizer
    /\ UNCHANGED <<started, blob_meta, files, inodes, dirs, s3objects,
                   accepted>>

\* if row: db.delete(row); db.flush()   db.add(BlobData(...)); db.commit()
\* id is the primary key of blob_data: an INSERT of a present id fails
DbCommit(c) ==
    /\ req[c].pc = "db_commit"
    /\ LET key == req[c].id
           new == [id |-> key, data |-> req[c].raw]
       IN  IF req[c].row
           THEN /\ blob_data' = {r \in blob_data : r.id # key} \cup {new}
                /\ req' = [req EXCEPT ![c].locator = key, ![c].pc = "insert"]
           ELSE IF \E r \in blob_data : r.id = key
           THEN /\ Raise(c, 502, "IntegrityError")
                /\ UNCHANGED blob_data
           ELSE /\ blob_data' = blob_data \cup {new}
                /\ req' = [req EXCEPT ![c].locator = key, ![c].pc = "insert"]
    /\ UNCHANGED sanitizer
    /\ UNCHANGED <<started, blob_meta, files, inodes, dirs, s3objects,
                   accepted>>

(***************************************************************************)
(* S3.put: one HTTP PUT, answered by the remote object store.              *)
(***************************************************************************)
\* what the object store may answer: a status code, or no answer at all
HttpOutcomes == {"200", "500", "ConnectionError"}

S3Put(c) ==
    /\ req[c].pc = "s3_put"
    /\ LET object_key == PathStr(safe_relpath(req[c].id))
       IN  \E r \in HttpOutcomes :
              IF r = "200"
              THEN /\ s3objects' = Put(s3objects, object_key, req[c].raw)
                   /\ req' = [req EXCEPT ![c].locator = object_key,
                                         ![c].pc = "insert"]
              ELSE /\ Raise(c, 502, IF r = "500" THEN "RuntimeError" ELSE r)
                   /\ UNCHANGED s3objects
    /\ UNCHANGED sanitizer
    /\ UNCHANGED <<started, blob_meta, blob_data, files, inodes, dirs,
                   accepted>>

(***************************************************************************)
(* store_*: the metadata row and the answer.                               *)
(***************************************************************************)
\* a table blob_meta without primary key and without uq_backend_id
MetaRejectsNothing(row) == FALSE

\* blob_meta rejects the row: id is its primary key, and (backend, id)
\* carries the constraint uq_backend_id
MetaRejects(row) ==
    \/ \E m \in blob_meta : m.id = row.id
    \/ \E m \in blob_meta : m.backend = row.backend /\ m.id = row.id

\* a store that writes its row over the row blob_meta has for the id
\* (db.merge in place of db.add)
MetaInsertUpsert(c) ==
    /\ req[c].pc = "insert"
    /\ LET row == [id |-> req[c].id, backend |-> req[c].backend,
                   locator |-> req[c].locator, size |-> Len(req[c].raw),
                   created_at |-> now]
       IN  /\ blob_meta' = {m \in blob_meta : m.id # row.id} \cup {row}
           /\ accepted' = accepted \cup
                 {[backend |-> row.backend, id |-> row.id,
                   raw |-> req[c].raw]}
           /\ Answer(c, [id |-> req[c].id, data |-> req[c].data,
                         size |-> Len(req[c].raw),
                         created_at |-> strftime(row.created_at)])
    /\ UNCHANGED sanitizer
    /\ UNCHANGED <<started, storage>>

\* meta = BlobMeta(..., created_at=datetime.now(timezone.utc))
\* db.add(meta); db.commit(); return BlobOut(...)
\* the IntegrityError of the commit is caught by nobody: a 500
MetaInsert(c) ==
    /\ req[c].pc = "insert"
    /\ LET row == [id |-> req[c].id, backend |-> req[c].backend,
                   locator |-> req[c].locator, size |-> Len(req[c].raw),
                   created_at |-> now]
       IN  IF MetaRejects(row)
           THEN /\ Raise(c, 500, "IntegrityError")
                /\ UNCHANGED <<blob_meta, accepted>>
           ELSE /\ blob_meta' = blob_meta \cup {row}
                /\ accepted' = accepted \cup
                      {[backend |-> row.backend, id |-> row.id,
                        raw |-> req[c].raw]}
                /\ Answer(c, [id |-> req[c].id, data |-> req[c].data,
                              size |-> Len(req[c].raw),
                              created_at |-> strftime(row.created_at)])
    /\ UNCHANGED sanitizer
    /\ UNCHANGED <<started, storage>>

(***************************************************************************)
(* get_local / get_db_blob / get_s3_blob                                   *)
(***************************************************************************)
\* GET /v1/<backend>/blobs/<id>:
\*   meta = db.query(BlobMeta).filter_by(...).one_or_none(), or 404
GetBegin(c, b, i) ==
    /\ started < MaxReq
    /\ FreeSlot(c)
    /\ LET r == [Idle EXCEPT !.op = "get", !.backend = b, !.id = i]
       IN  req' = [req EXCEPT ![c] =
                IF MetaQuery(b, i) = {}
                THEN [r EXCEPT !.pc = "done", !.status = 404]
                ELSE [r EXCEPT !.pc = "get",
                               !.meta = CHOOSE m \in MetaQuery(b, i) : TRUE]]
    /\ started' = started + 1
    /\ UNCHANGED sanitizer
    /\ UNCHANGED <<blob_meta, storage, accepted>>

\* a retrieve that reports the time of the retrieve as created_at
RespondNow(c, raw) ==
    Answer(c, [id |-> req[c].id, data |-> b64encode(raw),
               size |-> req[c].meta.size,
               created_at |-> strftime(now)])

\* return BlobOut(id, b64encode(raw).decode(), meta.size, created_at)
Respond(c, raw) ==
    Answer(c, [id |-> req[c].id, data |-> b64encode(raw),
               size |-> req[c].meta.size,
               created_at |-> strftime(req[c].meta.created_at)])

\* a get handler that answers a missing object like an unknown id
GetFailsUnknownId(c, exc) ==
    Raise(c, IF exc = "FileNotFoundError" THEN 404 ELSE 500, exc)

\* the except clause of the get handlers: FileNotFoundError becomes a 502,
\* any other exception reaches the caller as a 500
GetFails(c, exc) ==
    Raise(c, IF exc = "FileNotFoundError" THEN 502 ELSE 500, exc)

\* raw = LOCAL.get(meta.locator)
LocalGet(c) ==
    /\ req[c].pc = "get"
    /\ req[c].backend = "local"
    /\ LET rel == safe_relpath(req[c].meta.locator)
       IN  IF rel \in dirs THEN GetFails(c, "IsADirectoryError")
           ELSE IF rel \notin DOMAIN files THEN GetFails(c, "FileNotFoundError")
           ELSE Respond(c, inodes[files[rel]])
    /\ UNCHANGED sanitizer
    /\ UNCHANGED <<started, blob_meta, storage, accepted>>

\* raw = DBBACK.get(meta.locator)
DbGet(c) ==
    /\ req[c].pc = "get"
    /\ req[c].backend = "db"
    /\ LET rows == {r \in blob_data : r.id = req[c].meta.locator}
       IN  IF rows = {} THEN GetFails(c, "FileNotFoundError")
           ELSE Respond(c, (CHOOSE r \in rows : TRUE).data)
    /\ UNCHANGED sanitizer
    /\ UNCHANGED <<started, blob_meta, storage, accepted>>

\* raw = S3BACK.get(meta.locator): a 200 carries the object; the store may
\* also answer another status, or not at all
S3Get(c) ==
    /\ req[c].pc = "get"
    /\ req[c].backend = "s3"
    /\ LET object_key == PathStr(safe_relpath(req[c].meta.locator))
       IN  \E r \in HttpOutcomes :
              IF r = "200"
              THEN /\ object_key \in DOMAIN s3objects
                   /\ Respond(c, s3objects[object_key])
              ELSE GetFails(c, IF r = "500" THEN "FileNotFoundError" ELSE r)
    /\ UNCHANGED sanitizer
    /\ UNCHANGED <<started, blob_meta, storage, accepted>>

(***************************************************************************)
(* The gateway.                                                            *)
(***************************************************************************)
Next ==
    \/ \E c \in Clients, b \in Backends, i \in Ids, d \in Payloads :
          StoreBegin(c, b, i, d)
    \/ \E c \in Clients : LocalOpen(c)
    \/ \E c \in Clients : LocalWrite(c)
    \/ \E c \in Clients : LocalReplace(c)
    \/ \E c \in Clients : DbRead(c)
    \/ \E c \in Clients : DbCommit(c)
    \/ \E c \in Clients : S3Put(c)
    \/ \E c \in Clients : MetaInsert(c)
    \/ \E c \in Clients, b \in Backends, i \in Ids : GetBegin(c, b, i)
    \/ \E c \in Clients : LocalGet(c)
    \/ \E c \in Clients : DbGet(c)
    \/ \E c \in Clients : S3Get(c)

Spec == Init /\ [][Next]_vars

(***************************************************************************)
(* The gateway beside somebody who removes payloads behind its back: the   *)
(* case the FileNotFoundError branches of the three get methods are for.   *)
(***************************************************************************)
\* the payload object the adapter of backend b finds at a locator
HasObject(b, locator) ==
    CASE b = "local" -> safe_relpath(locator) \in DOMAIN files
      [] b = "db"    -> \E r \in blob_data : r.id = locator
      [] b = "s3"    -> PathStr(safe_relpath(locator)) \in DOMAIN s3objects

\* the payload a row of blob_meta points at is removed: the file is
\* unlinked, the row of blob_data deleted, the object deleted from the bucket
PayloadLost(m) ==
    /\ started < MaxReq
    /\ started' = started + 1
    /\ m \in blob_meta
    /\ HasObject(m.backend, m.locator)
    /\ files' = IF m.backend = "local"
                THEN Drop(files, safe_relpath(m.locator)) ELSE files
    /\ inodes' = Live(files', inodes, req)
    /\ blob_data' = IF m.backend = "db"
                    THEN {r \in blob_data : r.id # m.locator} ELSE blob_data
    /\ s3objects' = IF m.backend = "s3"
                    THEN Drop(s3objects, PathStr(safe_relpath(m.locator)))
                    ELSE s3objects
    /\ UNCHANGED sanitizer
    /\ UNCHANGED <<req, blob_meta, dirs, accepted>>

NextLoss ==
    \/ Next
    \/ \E m \in blob_meta : PayloadLost(m)

SpecLoss == Init /\ [][NextLoss]_vars

(***************************************************************************)
(* The adapters alone, driven by one caller: put(key, data), and get(L)    *)
(* right after a put that returned the locator L.                          *)
(***************************************************************************)
\* keys of the adapters: the ids of the gateway, "a//b" (the path of
\* "a/b"), "x y" (a segment that is hashed) and "a.part"
AdapterKeys ==
    Ids \cup { <<"a", "/", "/", "b">>, <<"x", " ", "y">>,
               <<"a", ".", "p", "a", "r", "t">> }

\* byte strings of the adapters: b"", b"A", b"BC"
AdapterBytes == { <<>>, <<65>>, <<66, 67>> }

\* the one caller of the adapters: the first slot
Caller == CHOOSE c \in Clients : \A x \in Clients : c <= x

\* Storage.put(key, data) is called
CallPut(c, b, k, data) ==
    /\ started < MaxReq
    /\ req[c].pc \in {"idle", "done"}
    /\ req' = [req EXCEPT ![c] =
                 [Idle EXCEPT !.op = "put", !.backend = b, !.id = k,
                              !.raw = data, !.pc = PutEntry(b)]]
    /\ started' = started + 1
    /\ UNCHANGED sanitizer
    /\ UNCHANGED <<blob_meta, storage, accepted>>

\* put has returned its locator: Storage.get(locator) is called with it
CallGet(c) ==
    /\ req[c].op = "put"
    /\ req[c].pc = "insert"
    /\ req' = [req EXCEPT ![c].pc = "get",
                          ![c].meta = [NoMeta EXCEPT !.locator = req[c].locator]]
    /\ UNCHANGED sanitizer
    /\ UNCHANGED <<started, blob_meta, storage, accepted>>

NextAdapters ==
    \/ \E b \in Backends, k \in AdapterKeys, data \in AdapterBytes :
          CallPut(Caller, b, k, data)
    \/ LocalOpen(Caller)
    \/ LocalWrite(Caller)
    \/ LocalReplace(Caller)
    \/ DbRead(Caller)
    \/ DbCommit(Caller)
    \/ S3Put(Caller)
    \/ CallGet(Caller)
    \/ LocalGet(Caller)
    \/ DbGet(Caller)
    \/ S3Get(Caller)

SpecAdapters == Init /\ [][NextAdapters]_vars

(***************************************************************************)
(* The gateway serving one request after the other, for ids that the       *)
(* sanitizer changes or maps to the path of another id.                    *)
(***************************************************************************)
\* "a/b", "a//b" (the path of "a/b"), "a", "a.part" (the temporary file of
\* "a") and "a/b/../c" (stored under a/b/c)
SeqIds ==
    { <<"a", "/", "b">>, <<"a", "/", "/", "b">>, <<"a">>,
      <<"a", ".", "p", "a", "r", "t">>,
      <<"a", "/", "b", "/", ".", ".", "/", "c">> }

\* "aGVsbG8=" (b"hello") and "QR==" (b"A", which encodes as "QQ==")
SeqPayloads ==
    { <<"a","G","V","s","b","G","8","=">>, <<"Q","R","=","=">> }

NextSeq ==
    \/ \E b \in Backends, i \in SeqIds, d \in SeqPayloads :
          StoreBegin(Caller, b, i, d)
    \/ LocalOpen(Caller)
    \/ LocalWrite(Caller)
    \/ LocalReplace(Caller)
    \/ DbRead(Caller)
    \/ DbCommit(Caller)
    \/ S3Put(Caller)
    \/ MetaInsert(Caller)
    \/ \E b \in Backends, i \in SeqIds : GetBegin(Caller, b, i)
    \/ LocalGet(Caller)
    \/ DbGet(Caller)
    \/ S3Get(Caller)

SpecSeq == Init /\ [][NextSeq]_vars

(***************************************************************************)
(* safe_relpath alone: called with a key, and called again with the        *)
(* locator that LocalFS.put and S3.put make of its result.                 *)
(***************************************************************************)
\* the characters of the keys: a safe one, the dot, the separator, a blank
KeyChars == {"a", ".", "/", " "}

\* every text of at most MaxKeyLen of these characters, the ids and keys of
\* the other specifications, and " x y/../a "
Keys ==
    UNION {[1..n -> KeyChars] : n \in 0..MaxKeyLen}
      \cup SeqIds \cup AdapterKeys
      \cup { <<" ", "x", " ", "y", "/", ".", ".", "/", "a", " ">> }

InitSan ==
    /\ req = [c \in Clients |-> Idle]
    /\ started = 0
    /\ blob_meta = {}
    /\ blob_data = {}
    /\ files = <<>>
    /\ inodes = <<>>
    /\ dirs = {}
    /\ s3objects = <<>>
    /\ accepted = {}
    /\ san_key \in Keys
    /\ san_rel = <<>>
    /\ san_again = <<>>

\* rel = safe_relpath(key)
Sanitize ==
    /\ san_rel = <<>>
    /\ san_rel' = safe_relpath(san_key)
    /\ UNCHANGED <<san_key, san_again>>
    /\ UNCHANGED gateway

\* locator = str(rel).replace("\\", "/"); rel = safe_relpath(locator)
Resanitize ==
    /\ san_rel # <<>>
    /\ san_again = <<>>
    /\ san_again' = safe_relpath(PathStr(san_rel))
    /\ UNCHANGED <<san_key, san_rel>>
    /\ UNCHANGED gateway

NextSan ==
    \/ Sanitize
    \/ Resanitize

SpecSan == InitSan /\ [][NextSan]_vars

(***************************************************************************)
(* Vocabulary of the properties.                                           *)
(***************************************************************************)
\* the positions of a store inside the adapter's put
PutPcs == {"local_open", "local_write", "local_replace", "db_read",
           "db_commit", "s3_put"}

\* a store of (b, i) has been received and not yet answered
StoreInFlight(b, i) ==
    \E x \in Clients : /\ req[x].op = "store"
                       /\ req[x].pc \in PutPcs \cup {"insert"}
                       /\ req[x].backend = b
                       /\ req[x].id = i

\* the stores of (b, i) that were answered 200
Accepted(b, i) == {a \in accepted : a.backend = b /\ a.id = i}

\* this step answers the request of slot c
Answers(c) == req'[c] # req[c] /\ req'[c].pc = "done"

\* this step receives a request in slot c
Receives(c) == req'[c] # req[c] /\ req[c].pc \in {"idle", "done"}

\* this step is the adapter's get of the request of slot c
AdapterGets(c) == req[c].pc = "get" /\ req'[c].pc = "done"

\* the adapter of backend b finds nothing at the locator
Missing(b, locator) ==
    CASE b = "local" -> LET rel == safe_relpath(locator)
                        IN  rel \notin DOMAIN files /\ rel \notin dirs
      [] b = "db"    -> ~ \E r \in blob_data : r.id = locator
      [] b = "s3"    -> PathStr(safe_relpath(locator)) \notin DOMAIN s3objects

\* the bytes the adapter of backend b holds at the locator
Payload(b, locator) ==
    CASE b = "local" -> inodes[files[safe_relpath(locator)]]
      [] b = "db"    -> (CHOOSE r \in blob_data : r.id = locator).data
      [] b = "s3"    -> s3objects[PathStr(safe_relpath(locator))]

(***************************************************************************)
(* C1. Two concurrent stores of one (backend, id), valid payloads, no      *)
(* failure of the adapter's put: one is answered 200, the other 409, and   *)
(* no store is answered anything else.  Stated for every store whose id    *)
(* is on no other backend: it is answered 200 or 409 unless its payload    *)
(* is rejected (400) or its put fails (502).                               *)
(***************************************************************************)
C1_SuccessOrConflict ==
    \A c \in Clients :
        ( /\ req[c].pc = "done"
          /\ req[c].op = "store"
          /\ B64Valid(req[c].data)
          /\ req[c].status # 502
          /\ \A m \in blob_meta : m.id = req[c].id => m.backend = req[c].backend )
        => req[c].status \in {200, 409}

(***************************************************************************)
(* C2. Once the stores of (backend, id) are all answered, a retrieve of    *)
(* (backend, id) that is answered 200 carries the bytes of the store that  *)
(* was answered 200, and their length as size.                             *)
(***************************************************************************)
C2_NoSilentOverwrite ==
    [][ \A c \in Clients :
          ( /\ AdapterGets(c)
            /\ req'[c].status = 200
            /\ ~StoreInFlight(req[c].backend, req[c].id) )
          => \A a \in Accepted(req[c].backend, req[c].id) :
                /\ req'[c].resp.data = b64encode(a.raw)
                /\ req'[c].resp.size = Len(a.raw) ]_vars

(***************************************************************************)
(* C3. A store whose put fails is answered 502 and inserts no row; a row   *)
(* is only ever inserted by a store whose put returned its locator; and a  *)
(* store of the same (backend, id) received after that 502, whose put      *)
(* succeeds while blob_meta has no row for (backend, id), is answered 200. *)
(***************************************************************************)
C3_PutFailureThenRetry ==
    [][ /\ \A c \in Clients :
              (req[c].pc \in PutPcs /\ req'[c].pc = "done")
              => (req'[c].status = 502 /\ blob_meta' = blob_meta)
        /\ blob_meta' # blob_meta
              => \E c \in Clients :
                    /\ req[c].pc = "insert"
                    /\ ~Missing(req[c].backend, req[c].locator)
                    /\ \E m \in blob_meta' :
                          /\ blob_meta' = blob_meta \cup {m}
                          /\ m.backend = req[c].backend
                          /\ m.id = req[c].id
                          /\ m.locator = req[c].locator
        /\ \A c \in Clients :
              ( /\ req[c].pc = "insert"
                /\ req[c].retry
                /\ Answers(c)
                /\ MetaQuery(req[c].backend, req[c].id) = {} )
              => req'[c].status = 200 ]_vars

(***************************************************************************)
(* C4. Ids are unique per backend: a store with a valid payload and a      *)
(* succeeding put is answered 200 whenever blob_meta has no row for its    *)
(* (backend, id), and 409 only when it has one.                            *)
(***************************************************************************)
C4_IdsUniquePerBackend ==
    [][ \A c \in Clients :
          ( /\ Answers(c)
            /\ req'[c].op = "store"
            /\ req'[c].status \notin {400, 502} )
          => /\ MetaQuery(req'[c].backend, req'[c].id) = {}
                   => req'[c].status = 200
             /\ req'[c].status = 409
                   => MetaQuery(req'[c].backend, req'[c].id) # {} ]_vars

(***************************************************************************)
(* C5. A store with a valid payload received when blob_meta has a row for  *)
(* its (backend, id) is answered 409 at once: it calls no put, inserts no  *)
(* row and leaves every row and every payload as it was; and a retrieve    *)
(* answered 200 carries the size and created_at of the row and the bytes   *)
(* held at its locator.                                                    *)
(***************************************************************************)
C5_SecondStoreConflict ==
    [][ /\ \A c \in Clients :
              ( /\ Receives(c)
                /\ req'[c].op = "store"
                /\ B64Valid(req'[c].data)
                /\ MetaQuery(req'[c].backend, req'[c].id) # {} )
              => /\ req'[c].pc = "done"
                 /\ req'[c].status = 409
                 /\ UNCHANGED <<blob_meta, storage>>
        /\ \A c \in Clients :
              (AdapterGets(c) /\ req'[c].status = 200)
              => \A m \in MetaQuery(req[c].backend, req[c].id) :
                    /\ req'[c].resp.size = m.size
                    /\ req'[c].resp.created_at = strftime(m.created_at)
                    /\ req'[c].resp.data =
                          b64encode(Payload(m.backend, m.locator)) ]_vars

\* a second store of (backend, id) with other bytes has been answered 409
\* and the payload of the first is still in place
C5_Witness ==
    \E c \in Clients :
        /\ req[c].pc = "done"
        /\ req[c].op = "store"
        /\ req[c].status = 409
        /\ \E a \in Accepted(req[c].backend, req[c].id) :
              /\ a.raw # b64decode(req[c].data)
              /\ \E m \in MetaQuery(req[c].backend, req[c].id) :
                    /\ Payload(m.backend, m.locator) = a.raw
                    /\ m.size = Len(a.raw)

(***************************************************************************)
(* C6. blob_meta never holds two rows for one (backend, id).               *)
(***************************************************************************)
C6_OneRowPerBackendId ==
    \A m1 \in blob_meta, m2 \in blob_meta :
        (m1.backend = m2.backend /\ m1.id = m2.id) => m1 = m2

\* the insert of a second writer has been rejected: its (backend, id) has a
\* row, and its own put had passed the existence check
C6_Witness ==
    \E c \in Clients :
        /\ req[c].pc = "done"
        /\ req[c].op = "store"
        /\ req[c].status = 500
        /\ MetaQuery(req[c].backend, req[c].id) # {}

(***************************************************************************)
(* C7. A store whose payload is not valid base64 is answered 400 in the    *)
(* step that receives it: it never reaches the adapter, and that step      *)
(* leaves blob_meta and the contents of every backend unchanged.           *)
(***************************************************************************)
C7_InvalidPayloadRejectedFirst ==
    [][ \A c \in Clients :
          (req'[c].op = "store" /\ ~B64Valid(req'[c].data))
          => /\ req'[c].pc = "done"
             /\ req'[c].status = 400
             /\ Receives(c) => UNCHANGED <<blob_meta, storage>> ]_vars

\* a payload that is not base64 has been rejected for an id that is stored
C7_Witness ==
    \E c \in Clients :
        /\ req[c].pc = "done"
        /\ req[c].op = "store"
        /\ req[c].status = 400
        /\ ~B64Valid(req[c].data)
        /\ MetaQuery(req[c].backend, req[c].id) # {}

(***************************************************************************)
(* C8. A retrieve of (backend, id) for which no store was answered 200 is  *)
(* answered 404 without calling the adapter's get, also when the id is     *)
(* stored on another backend.                                              *)
(***************************************************************************)
C8_NotFoundWithoutStore ==
    \A c \in Clients :
        (req[c].op = "get" /\ Accepted(req[c].backend, req[c].id) = {})
        => (req[c].pc = "done" /\ req[c].status = 404)

\* a retrieve was answered 404 for an id that is stored on another backend
C8_Witness ==
    \E c \in Clients :
        /\ req[c].pc = "done"
        /\ req[c].op = "get"
        /\ req[c].status = 404
        /\ \E a \in accepted : a.id = req[c].id /\ a.backend # req[c].backend

(***************************************************************************)
(* C9. A retrieve that has found its row and whose adapter finds nothing   *)
(* at the row's locator is answered 502 (unless the object store did not   *)
(* answer at all), and no retrieve that has found its row is answered 404. *)
(***************************************************************************)
C9_MissingObjectIsBackendError ==
    [][ \A c \in Clients :
          AdapterGets(c)
          => /\ req'[c].status # 404
             /\ ( /\ Missing(req[c].backend, req[c].meta.locator)
                  /\ req'[c].exc # "ConnectionError" )
                => req'[c].status = 502 ]_vars

\* a retrieve from the local backend was answered 502: the row is there and
\* the file is not
C9_Witness ==
    \E c \in Clients :
        /\ req[c].pc = "done"
        /\ req[c].op = "get"
        /\ req[c].backend = "local"
        /\ req[c].status = 502
        /\ \E m \in MetaQuery(req[c].backend, req[c].id) :
              Missing(m.backend, m.locator)

(***************************************************************************)
(* C10. Every exception of an adapter's put or get ends the request with   *)
(* a 502.                                                                  *)
(***************************************************************************)
C10_AdapterFailureIsBackendError ==
    [][ \A c \in Clients :
          ( /\ req[c].pc \in PutPcs \cup {"get"}
            /\ req'[c].pc = "done"
            /\ req'[c].exc # "none" )
          => req'[c].status = 502 ]_vars

(***************************************************************************)
(* Vocabulary of the properties of the adapters.                           *)
(***************************************************************************)
\* the byte strings the stores of this model call put with
PutBytes == {b64decode(d) : d \in {x \in Payloads : B64Valid(x)}}

\* the paths LocalFS.put renames its temporary file to
FinalPaths == {safe_relpath(i) : i \in Ids}

(***************************************************************************)
(* C11. LocalFS: at every point, also while puts are under way or have     *)
(* stopped half way, and also when two puts to one path run at the same    *)
(* time, the final path of a blob is absent or holds the complete bytes    *)
(* some put was called with.                                               *)
(***************************************************************************)
C11_NoPartialFile ==
    \A rel \in FinalPaths :
        rel \in DOMAIN files => inodes[files[rel]] \in PutBytes

(***************************************************************************)
(* C12. For every adapter, key and byte string: a put that returns the     *)
(* locator L, followed at once by get(L) on the same adapter, returns      *)
(* exactly the bytes put was called with.  Only the get of S3 may raise    *)
(* instead, when the object store does not answer 200.                     *)
(***************************************************************************)
C12_RoundTrip ==
    [][ \A c \in Clients :
          (AdapterGets(c) /\ req[c].op = "put")
          => /\ req'[c].exc = "none"
                   => /\ req'[c].status = 200
                      /\ req'[c].resp.data = b64encode(req[c].raw)
             /\ req'[c].exc # "none" => req[c].backend = "s3" ]_vars

\* get has returned the two bytes that the second put of the run wrote
\* under the key "a//b" of LocalFS
C12_Witness ==
    \E c \in Clients :
        /\ req[c].pc = "done"
        /\ req[c].op = "put"
        /\ req[c].backend = "local"
        /\ req[c].id = <<"a", "/", "/", "b">>
        /\ req[c].status = 200
        /\ req[c].resp.data = b64encode(<<66, 67>>)
        /\ started = 2

(***************************************************************************)
(* C13. A store answered 200 carries its id, the payload as it was sent,   *)
(* the length of the decoded bytes B as size, and the created_at of the    *)
(* row it inserted; and the retrieve of the same (backend, id) that is     *)
(* the next request is answered 200 with the id, the encoding of exactly   *)
(* B, size = length of B and the created_at of that row (on S3, unless     *)
(* the object store does not answer 200).  This holds for "a/b/../c" on    *)
(* the local backend, whose file is a/b/c.                                 *)
(***************************************************************************)
C13_StoreThenRetrieve ==
    [][ \A c \in Clients :
          /\ ( /\ req[c].pc = "insert"
               /\ Answers(c)
               /\ req'[c].status = 200 )
             => /\ req'[c].resp.id = req[c].id
                /\ req'[c].resp.data = req[c].data
                /\ req'[c].resp.size = Len(b64decode(req[c].data))
                /\ \E m \in MetaQuery(req[c].backend, req[c].id)' :
                      /\ m \notin blob_meta
                      /\ m.created_at = now
                      /\ req'[c].resp.created_at = strftime(m.created_at)
                /\ req[c].backend = "local"
                      => /\ req[c].locator = PathStr(safe_relpath(req[c].id))
                         /\ Payload("local", req[c].locator) = req[c].raw
          /\ ( /\ AdapterGets(c)
               /\ req[c].op = "get"
               /\ req[c].meta.created_at + 1 = started
               /\ ~(req[c].backend = "s3" /\ req'[c].exc # "none") )
             => /\ req'[c].status = 200
                /\ req'[c].resp.id = req[c].id
                /\ req'[c].resp.created_at = strftime(req[c].meta.created_at)
                /\ req[c].meta \in blob_meta
                /\ Accepted(req[c].backend, req[c].id) # {}
                /\ \A a \in Accepted(req[c].backend, req[c].id) :
                      /\ req'[c].resp.data = b64encode(a.raw)
                      /\ req'[c].resp.size = Len(a.raw) ]_vars

\* "a/b/../c" was stored on the local backend with "aGVsbG8=", the file is
\* a/b/c, and the retrieve that came next was answered "aGVsbG8=", size 5
C13_Witness ==
    \E c \in Clients :
        /\ req[c].pc = "done"
        /\ req[c].op = "get"
        /\ req[c].backend = "local"
        /\ req[c].id = <<"a", "/", "b", "/", ".", ".", "/", "c">>
        /\ req[c].status = 200
        /\ req[c].resp.data = <<"a","G","V","s","b","G","8","=">>
        /\ req[c].resp.size = 5
        /\ started = 2
        /\ <<<<"a">>, <<"b">>, <<"c">>>> \in DOMAIN files

(***************************************************************************)
(* C14. blob_meta is append-only: a step adds a row exactly when it        *)
(* answers a store with 200, it then adds one row, for the (backend, id)   *)
(* of that store; and no step of a store or a retrieve, successful or      *)
(* failing, removes a row or changes the locator, size or created_at of    *)
(* the row of a (backend, id).                                             *)
(***************************************************************************)
C14_MetaAppendOnly ==
    [][ /\ blob_meta \subseteq blob_meta'
        /\ \A m \in blob_meta :
              MetaQuery(m.backend, m.id)' = {m}
        /\ \A c \in Clients :
              (Answers(c) /\ req'[c].op = "store")
              => IF req'[c].status = 200
                 THEN \E m \in blob_meta' :
                         /\ m \notin blob_meta
                         /\ blob_meta' = blob_meta \cup {m}
                         /\ m.backend = req[c].backend
                         /\ m.id = req[c].id
                 ELSE blob_meta' = blob_meta
        /\ blob_meta' # blob_meta
              => \E c \in Clients :
                    /\ Answers(c)
                    /\ req'[c].op = "store"
                    /\ req'[c].status = 200 ]_vars

\* a store of (backend, id) was answered 200 and another one 500, and the
\* retrieve that followed was answered with the size of the one row
C14_Witness ==
    \E c \in Clients, x \in Clients :
        /\ req[c].pc = "done"
        /\ req[c].op = "get"
        /\ req[c].status = 200
        /\ req[x].pc = "done"
        /\ req[x].op = "store"
        /\ req[x].status = 500
        /\ req[x].backend = req[c].backend
        /\ req[x].id = req[c].id
        /\ \E m \in blob_meta :
              /\ MetaQuery(req[c].backend, req[c].id) = {m}
              /\ req[c].resp.size = m.size
              /\ req[c].resp.created_at = strftime(m.created_at)

(***************************************************************************)
(* Vocabulary of the properties of the sanitizer.                          *)
(***************************************************************************)
\* the input segments of a key, each with its surrounding whitespace cut
Trimmed(k) ==
    [n \in 1..Len(Split(k, "/")) |-> StripChars(Split(k, "/")[n], Whitespace)]

\* the places of the input segments that are not empty, "." or ".."
Kept(k) ==
    {n \in 1..Len(Trimmed(k)) :
        Trimmed(k)[n] \notin {<<>>, <<".">>, <<".", ".">>}}

\* a segment of letters, digits, ".", "_" and "-" only
IsSafeSeg(seg) == Len(seg) > 0 /\ \A n \in 1..Len(seg) : seg[n] \in SAFE_SEG

\* 16 hexadecimal digits
IsHex16(seg) ==
    /\ Len(seg) = 16
    /\ \A n \in 1..16 :
          seg[n] \in {"0","1","2","3","4","5","6","7","8","9",
                      "a","b","c","d","e","f"}

(***************************************************************************)
(* C15. safe_relpath is deterministic and idempotent: the segments it gave *)
(* for a key are the segments it gives for that key, and called with the   *)
(* slash-joined segments (the locator put returns) it gives the same       *)
(* segments, so get derives from a locator the path that put wrote.        *)
(***************************************************************************)
C15_SanitizerIdempotent ==
    /\ san_rel # <<>> => san_rel = safe_relpath(san_key)
    /\ san_again # <<>> => /\ san_again = san_rel
                       /\ san_again = safe_relpath(PathStr(san_again))

\* "a/b/../c" gave a, b, c, and the locator "a/b/c" gave a, b, c again
C15_Witness ==
    /\ san_key = <<"a", "/", "b", "/", ".", ".", "/", "c">>
    /\ PathStr(san_rel) # san_key
    /\ san_again = <<<<"a">>, <<"b">>, <<"c">>>>

(***************************************************************************)
(* C16. The result of safe_relpath is never empty; no segment of it is     *)
(* empty, "." or ".."; its segments are, in the order of the input, the    *)
(* trimmed input segments that are not empty, "." or "..": verbatim when   *)
(* made of letters, digits, ".", "_" and "-", else as the first 16 hex     *)
(* digits of their SHA-256; and when no input segment is left the result   *)
(* is the one segment "blob".  Every segment is a plain name, so the path  *)
(* stays below the root of the backend.                                    *)
(***************************************************************************)
C16_SanitizerOutput ==
    san_rel # <<>> =>
        /\ Len(san_rel) >= 1
        /\ \A j \in 1..Len(san_rel) :
              /\ san_rel[j] \notin {<<>>, <<".">>, <<".", ".">>}
              /\ IsSafeSeg(san_rel[j])
        /\ IF Kept(san_key) = {}
           THEN san_rel = << <<"b", "l", "o", "b">> >>
           ELSE /\ Len(san_rel) = Cardinality(Kept(san_key))
                /\ \A j \in 1..Len(san_rel) :
                      LET n == CHOOSE x \in Kept(san_key) :
                                  Cardinality({y \in Kept(san_key) : y <= x}) = j
                          seg == Trimmed(san_key)[n]
                      IN  IF IsSafeSeg(seg)
                          THEN san_rel[j] = seg
                          ELSE san_rel[j] = sha256hex16(seg) /\ IsHex16(san_rel[j])

\* " x y/../a " gave the hash of "x y" and "a": one segment trimmed and
\* hashed, one dropped, one trimmed and kept
C16_Witness ==
    /\ san_key = <<" ", "x", " ", "y", "/", ".", ".", "/", "a", " ">>
    /\ san_rel = << <<"8","8","7","f","c","e","a","6","a","8","0","3","3","3","c","6">>,
                <<"a">> >>

(***************************************************************************)
(* C17. DBTable.put overwrites: blob_data never has two rows for a key; a  *)
(* put that completes leaves, for its key, the one row with its bytes,     *)
(* whether or not the key had a row; rows change in no other step, so      *)
(* get returns the bytes of the last put that completed; and a key that    *)
(* has a row has one in the next state too, so no reader finds the key     *)
(* without a row while it is replaced.                                     *)
(***************************************************************************)
C17_DbPutOverwrites ==
    [][ /\ \A r1 \in blob_data', r2 \in blob_data' : r1.id = r2.id => r1 = r2
        /\ \A c \in Clients :
              (req[c].pc = "db_commit" /\ req'[c].pc = "insert")
              => /\ {r \in blob_data' : r.id = req[c].id}
                       = {[id |-> req[c].id, data |-> req[c].raw]}
                 /\ req'[c].locator = req[c].id
                 /\ {r \in blob_data' : r.id # req[c].id}
                       = {r \in blob_data : r.id # req[c].id}
        /\ blob_data' # blob_data
              => \E c \in Clients :
                    req[c].pc = "db_commit" /\ req'[c].pc = "insert"
        /\ \A r \in blob_data : \E r2 \in blob_data' : r2.id = r.id
        /\ \A c \in Clients :
              (AdapterGets(c) /\ req[c].backend = "db")
              => IF \E r \in blob_data : r.id = req[c].meta.locator
                 THEN /\ req'[c].status = 200
                      /\ \A r \in blob_data :
                            r.id = req[c].meta.locator
                            => req'[c].resp.data = b64encode(r.data)
                 ELSE req'[c].exc = "FileNotFoundError" ]_vars

\* a put has replaced the row of a key that held the bytes of an earlier
\* put: the key has the one row with the new bytes
C17_Witness ==
    \E c \in Clients :
        /\ req[c].pc = "insert"
        /\ req[c].backend = "db"
        /\ req[c].row
        /\ {r \in blob_data : r.id = req[c].id}
              = {[id |-> req[c].id, data |-> req[c].raw]}
        /\ \E a \in Accepted("db", req[c].id) : a.raw # req[c].raw

(***************************************************************************)
(* C18. Stores of other ids do not interfere: with requests served one     *)
(* after the other, a retrieve of a (backend, id) whose store was answered *)
(* 200 is answered 200 with the encoding of the bytes of that store and    *)
(* their length as size, whatever stores of other ids came in between      *)
(* (on S3, unless the object store does not answer 200).                   *)
(***************************************************************************)
C18_OtherIdsDoNotInterfere ==
    [][ \A c \in Clients :
          ( /\ AdapterGets(c)
            /\ req[c].op = "get"
            /\ ~(req[c].backend = "s3" /\ req'[c].exc # "none") )
          => /\ req'[c].status = 200
             /\ \A a \in Accepted(req[c].backend, req[c].id) :
                   /\ req'[c].resp.data = b64encode(a.raw)
                   /\ req'[c].resp.size = Len(a.raw) ]_vars

(***************************************************************************)
(* Vocabulary of the properties of a store as a whole.                     *)
(***************************************************************************)
\* every request has been answered
Quiet == \A c \in Clients : req[c].pc \in {"idle", "done"}

\* the rows of blob_meta of one backend
MetaOf(b) == {m \in blob_meta : m.backend = b}

(***************************************************************************)
(* C19. A store is all-or-nothing: once every request is answered, each    *)
(* file of the local backend, each row of blob_data and each object of     *)
(* the bucket is the one the locator of a row of blob_meta of that         *)
(* backend points at, so a store that was not answered 200 has left no     *)
(* payload behind.                                                         *)
(***************************************************************************)
C19_StoreAllOrNothing ==
    Quiet =>
        /\ \A p \in DOMAIN files :
              \E m \in MetaOf("local") : safe_relpath(m.locator) = p
        /\ \A r \in blob_data :
              \E m \in MetaOf("db") : m.locator = r.id
        /\ \A k \in DOMAIN s3objects :
              \E m \in MetaOf("s3") : PathStr(safe_relpath(m.locator)) = k

====
